---- MODULE Spec2Model ----
\* maya_stubgen/utils.py: host lifecycle helpers, the memoized version query,
\* the version-tagged cache directory and the timing wrapper.
EXTENDS Integers, Sequences, FiniteSets, TLC

VARIABLES
    has_maya,        \* _has_maya: whether `import maya` succeeded
    cached_version,  \* _maya_version: Optional[str]
    fs,              \* the filesystem: ./.cache and ./temp/maya_app_dir
    log,             \* the lines written through `logger`
    host,            \* the calls made into the host (maya.standalone, maya.cmds)
    handlers,        \* logging.getLogger().handlers
    qt,              \* the Qt attribute flag and the QApplication objects built
    scope,           \* the position of a `with maya_standalone():` block
    last,            \* the last call: its inputs, the state before it, its outcome
    ncalls           \* number of calls made so far

vars == <<has_maya, cached_version, fs, log, host, handlers, qt, scope, last, ncalls>>

\* ---------------------------------------------------------------- bounds

MaxCalls == 4

\* ---------------------------------------------------------------- values

\* Optional[T]: None, or a value
None == <<>>
Some(x) == <<x>>
Get(o) == o[1]

NoError == "none"

\* Strings that the code inspects are sequences of characters.
V2022 == <<"2", "0", "2", "2">>
V2023 == <<"2", "0", "2", "3">>
Versions == {V2022, V2023}

Whitespace == {" ", "\n", "\t"}

\* The texts a marker file may hold: a version, with or without a trailing newline.
MarkerTexts == Versions \cup {v \o <<"\n">> : v \in Versions}

\* Names of cache entries other than the marker file.
Entries == {"cmds.json", "api.json"}

Dirs == [entries : SUBSET Entries,
         marker : {None} \cup {Some(t) : t \in MarkerTexts}]

\* ---------------------------------------------------------------- logging

Line(level, msg, args) == [level |-> level, msg |-> msg, args |-> args]

\* The world the functions act on, as one record.
World == [fs |-> fs, log |-> log, host |-> host, handlers |-> handlers, qt |-> qt]

\* ---------------------------------------------------------------- str.strip

RECURSIVE lstrip(_)
lstrip(s) ==
    IF s # <<>> /\ Head(s) \in Whitespace THEN lstrip(Tail(s)) ELSE s

RECURSIVE rstrip(_)
rstrip(s) ==
    IF s # <<>> /\ s[Len(s)] \in Whitespace
    THEN rstrip(SubSeq(s, 1, Len(s) - 1))
    ELSE s

strip(s) == rstrip(lstrip(s))

\* ---------------------------------------------------------------- maya_version

\* `answer` is what maya.cmds.about(majorVersion=True) returns if it is asked.
\* `import maya.cmds` raises when the host is not installed.
maya_version_always_asks(has, cached, answer) ==
    IF ~has
    THEN [raised |-> "ModuleNotFoundError", ret |-> None, cached |-> cached,
          asked |-> <<>>]
    ELSE [raised |-> NoError, ret |-> Some(answer), cached |-> Some(answer),
          asked |-> <<[call |-> "about", arg |-> "majorVersion", ret |-> answer]>>]

maya_version(has, cached, answer) ==
    IF ~has
    THEN [raised |-> "ModuleNotFoundError", ret |-> None, cached |-> cached,
          asked |-> <<>>]
    ELSE IF cached = None
    THEN [raised |-> NoError, ret |-> Some(answer), cached |-> Some(answer),
          asked |-> <<[call |-> "about", arg |-> "majorVersion", ret |-> answer]>>]
    ELSE [raised |-> NoError, ret |-> cached, cached |-> cached, asked |-> <<>>]

\* ---------------------------------------------------------------- cache

\* cache_dir(): <resolved cwd>/.cache, the `cache` field of the filesystem
cache_dir(f) == f.cache

exists(path) == path # None

\* Path.read_text on the marker file
read_text(f) ==
    IF ~exists(cache_dir(f)) \/ ~exists(Get(cache_dir(f)).marker)
    THEN [raised |-> "FileNotFoundError", text |-> <<>>]
    ELSE [raised |-> NoError, text |-> Get(Get(cache_dir(f)).marker)]

\* shutil.rmtree(cache)
rmtree(f) == [f EXCEPT !.cache = None]

\* cache.mkdir(parents=True, exist_ok=True)
mkdir(f) ==
    IF exists(cache_dir(f)) THEN f
    ELSE [f EXCEPT !.cache = Some([entries |-> {}, marker |-> None])]

\* maya_version_file.write_text(version)
write_text(f, text) ==
    [f EXCEPT !.cache = Some([Get(@) EXCEPT !.marker = Some(text)])]

\* lines 131-133
wipe(version, f) == write_text(mkdir(rmtree(f)), version)

wipe_keeps_entries(version, f) == write_text(mkdir(f), version)

UnknownVersionLine ==
    Line("warning", "Cache from unknown Maya version found; removing existing cache", <<>>)

MismatchLine(version, cache_version) ==
    Line("warning",
         "Running against Maya %s, but cache was generated using Maya %s; removing existing cache",
         <<version, cache_version>>)

\* The body of remove_outdated_cache after `version = maya_version()`.
remove_outdated_cache_no_guard(version, f) ==
    [raised |-> NoError, fs |-> wipe(version, f), lines |-> <<UnknownVersionLine>>]

remove_outdated_cache_keeps(version, f) ==
    IF ~exists(cache_dir(f))
    THEN [raised |-> NoError, fs |-> f, lines |-> <<>>]
    ELSE [raised |-> NoError, fs |-> wipe_keeps_entries(version, f),
          lines |-> <<UnknownVersionLine>>]

remove_outdated_cache(version, f) ==
    IF ~exists(cache_dir(f))
    THEN [raised |-> NoError, fs |-> f, lines |-> <<>>]
    ELSE IF ~exists(Get(cache_dir(f)).marker)
    THEN LET r == read_text(f)
         IN  IF r.raised # NoError
             THEN [raised |-> r.raised, fs |-> f, lines |-> <<>>]
             ELSE LET cache_version == strip(r.text)
                  IN  IF cache_version = version
                      THEN [raised |-> NoError, fs |-> f, lines |-> <<>>]
                      ELSE [raised |-> NoError, fs |-> wipe(version, f),
                            lines |-> <<MismatchLine(version, cache_version)>>]
    ELSE [raised |-> NoError, fs |-> wipe(version, f), lines |-> <<UnknownVersionLine>>]

\* ---------------------------------------------------------------- host lifecycle

\* line 37
PLUGINS == <<"invertShape.mll", "poseInterpolator.mll">>

HostCall(call, arg, ret) == [call |-> call, arg |-> arg, ret |-> ret]

Outcome(ok) == IF ok THEN "ok" ELSE "raised"

\* lines 57-63: `loads[p]` tells whether maya.cmds.loadPlugin(p) succeeds
RECURSIVE load_plugins_stops(_, _, _)
load_plugins_stops(w, plugins, loads) ==
    IF plugins = <<>> THEN w
    ELSE LET plugin == Head(plugins)
             w1 == [w EXCEPT !.host =
                        Append(@, HostCall("loadPlugin", plugin, Outcome(loads[plugin])))]
         IN  IF loads[plugin]
             THEN load_plugins_stops(w1, Tail(plugins), loads)
             ELSE [w1 EXCEPT !.log = Append(@, Line("warning", "Couldn't load %s", <<plugin>>))]

RECURSIVE load_plugins(_, _, _)
load_plugins(w, plugins, loads) ==
    IF plugins = <<>> THEN w
    ELSE LET plugin == Head(plugins)
             w1 == [w EXCEPT !.host =
                        Append(@, HostCall("loadPlugin", plugin, Outcome(loads[plugin])))]
             w2 == IF loads[plugin] THEN w1
                   ELSE [w1 EXCEPT !.log =
                             Append(@, Line("warning", "Couldn't load %s", <<plugin>>))]
         IN  load_plugins(w2, Tail(plugins), loads)

\* maya.standalone.initialize(): when it succeeds the host has installed its own
\* handler on the root logger (line 65)
standalone_initialize(w, start_ok) ==
    [w EXCEPT !.host = Append(@, HostCall("standalone.initialize", "", Outcome(start_ok))),
              !.handlers = IF start_ok THEN Append(@, "maya") ELSE @]

\* list.pop()
pop(l) ==
    IF l = <<>> THEN [raised |-> "IndexError", list |-> l]
    ELSE [raised |-> NoError, list |-> SubSeq(l, 1, Len(l) - 1)]

\* lines 44-67
initialize_maya_body(w, start_ok, loads) ==
    LET w1 == [w EXCEPT !.log = Append(@, Line("info", "Initializing Maya Standalone", <<>>)),
                        !.qt = [share_gl |-> TRUE, apps |-> @.apps + 1]]
        w2 == standalone_initialize(w1, start_ok)
    IN  IF ~start_ok
        THEN [raised |-> NoError,
              w |-> [w2 EXCEPT !.log =
                         Append(@, Line("error", "Failed to initialize Maya Standalone", <<>>))]]
        ELSE LET w3 == load_plugins(w2, PLUGINS, loads)
                 popped == pop(w3.handlers)
             IN  IF popped.raised # NoError
                 THEN [raised |-> popped.raised, w |-> w3]
                 ELSE [raised |-> NoError,
                       w |-> [w3 EXCEPT !.handlers = popped.list,
                                        !.log = Append(@, Line("success",
                                                   "Maya Standalone Initialized", <<>>))]]

initialize_maya_no_guard(has, w, start_ok, loads) ==
    initialize_maya_body(w, start_ok, loads)

initialize_maya(has, w, start_ok, loads) ==
    IF ~has THEN [raised |-> NoError, w |-> w]
    ELSE initialize_maya_body(w, start_ok, loads)

\* shutil.rmtree(temp_maya_app_dir, ignore_errors=True)
rmtree_temp(f) == [f EXCEPT !.temp = FALSE]

\* lines 74-86
uninitialize_maya_body(w, stop_ok) ==
    LET w1 == [w EXCEPT !.log = Append(@, Line("info", "Uninitializing Maya Standalone", <<>>)),
                        !.host = Append(@, HostCall("standalone.uninitialize", "",
                                                    Outcome(stop_ok)))]
        w2 == IF stop_ok
              THEN [w1 EXCEPT !.log = Append(@, Line("success",
                                         "Maya Standalone Uninitialized", <<>>))]
              ELSE [w1 EXCEPT !.log = Append(@, Line("error",
                                         "Failed to uninitialize Maya Standalone", <<>>))]
    IN  [raised |-> NoError, w |-> [w2 EXCEPT !.fs = rmtree_temp(@)]]

uninitialize_maya_cleans_on_success(has, w, stop_ok) ==
    IF ~has THEN [raised |-> NoError, w |-> w]
    ELSE LET r == uninitialize_maya_body(w, stop_ok)
         IN  IF stop_ok THEN r ELSE [r EXCEPT !.w.fs = w.fs]

uninitialize_maya(has, w, stop_ok) ==
    IF ~has THEN [raised |-> NoError, w |-> w]
    ELSE uninitialize_maya_body(w, stop_ok)

\* maya_standalone(), up to the yield
maya_standalone_enter(has, w, start_ok, loads) == initialize_maya(has, w, start_ok, loads)

\* maya_standalone(), from the yield on. When the body of the `with` block raised,
\* the exception is thrown into the generator at the yield, which does not catch it.
maya_standalone_exit(has, w, body_raised, stop_ok) ==
    IF body_raised
    THEN [raised |-> "BodyError", w |-> w, uninitialized |-> FALSE]
    ELSE LET r == uninitialize_maya(has, w, stop_ok)
         IN  [raised |-> r.raised, w |-> r.w, uninitialized |-> TRUE]

\* ---------------------------------------------------------------- timed

\* The argument lists the wrapped callables are called with.
ArgLists == {<<>>, <<0>>, <<1>>, <<0, 1>>}

\* Callables to wrap, by name: what each does with its arguments.
Callables == {"count", "first", "fail"}

call(func, args) ==
    CASE func = "count" -> [raised |-> NoError, value |-> Some(Len(args))]
      [] func = "first" -> IF args = <<>>
                           THEN [raised |-> "IndexError", value |-> None]
                           ELSE [raised |-> NoError, value |-> Some(args[1])]
      [] OTHER -> [raised |-> "ValueError", value |-> None]

\* time.perf_counter() readings
Ticks == {0, 1}

ExecutedLine(func, elapsed) ==
    Line("info", "Function %s executed in %ss", <<func, elapsed>>)

\* wrap_func, the callable timed(func) returns, called with `args`; t1 and t2 are
\* the two clock readings
wrap_func_logs_first(func, args, t1, t2) ==
    LET result == call(func, args)
    IN  [calls |-> <<[func |-> func, args |-> args]>>,
         raised |-> result.raised, ret |-> result.value,
         lines |-> <<ExecutedLine(func, t2 - t1)>>]

wrap_func(func, args, t1, t2) ==
    LET result == call(func, args)
    IN  IF result.raised # NoError
        THEN [calls |-> <<[func |-> func, args |-> args]>>,
              raised |-> result.raised, ret |-> None, lines |-> <<>>]
        ELSE [calls |-> <<[func |-> func, args |-> args]>>,
              raised |-> NoError, ret |-> result.value,
              lines |-> <<ExecutedLine(func, t2 - t1)>>]

timed(func) == [args \in ArgLists, t \in Ticks \X Ticks |-> wrap_func(func, args, t[1], t[2])]

\* ---------------------------------------------------------------- initial states

InitCommon ==
    /\ cached_version = None
    /\ log = <<>>
    /\ host = <<>>
    /\ qt = [share_gl |-> FALSE, apps |-> 0]
    /\ scope = [pc |-> "idle", uninitialized |-> FALSE]
    /\ last = [op |-> "none"]
    /\ ncalls = 0

InitCache ==
    /\ InitCommon
    /\ has_maya \in BOOLEAN
    /\ handlers = <<"stderr">>
    /\ fs \in [cache : {None} \cup {Some(d) : d \in Dirs}, temp : {FALSE}]

\* ---------------------------------------------------------------- cache actions

MayaVersion ==
    /\ ncalls < MaxCalls
    /\ \E answer \in Versions :
         LET r == maya_version(has_maya, cached_version, answer)
         IN  /\ cached_version' = r.cached
             /\ host' = host \o r.asked
             /\ last' = [op |-> "maya_version", pre |-> World,
                         raised |-> r.raised, ret |-> r.ret]
    /\ ncalls' = ncalls + 1
    /\ UNCHANGED <<has_maya, fs, log, handlers, qt, scope>>

RemoveOutdatedCache ==
    /\ ncalls < MaxCalls
    /\ \E answer \in Versions :
         LET v == maya_version(has_maya, cached_version, answer)
         IN  /\ cached_version' = v.cached
             /\ host' = host \o v.asked
             /\ IF v.raised # NoError
                THEN /\ UNCHANGED <<fs, log>>
                     /\ last' = [op |-> "remove_outdated_cache", pre |-> World,
                                 raised |-> v.raised, version |-> v.ret]
                ELSE LET r == remove_outdated_cache(Get(v.ret), fs)
                     IN  /\ fs' = r.fs
                         /\ log' = log \o r.lines
                         /\ last' = [op |-> "remove_outdated_cache", pre |-> World,
                                     raised |-> r.raised, version |-> v.ret]
    /\ ncalls' = ncalls + 1
    /\ UNCHANGED <<has_maya, handlers, qt, scope>>

NextCache == MayaVersion \/ RemoveOutdatedCache

SpecCache == InitCache /\ [][NextCache]_vars

\* ---------------------------------------------------------------- lifecycle actions

InitLifecycle ==
    /\ InitCommon
    /\ has_maya \in BOOLEAN
    /\ handlers \in {<<>>, <<"stderr">>}
    /\ fs \in [cache : {None}, temp : BOOLEAN]

Apply(w) ==
    /\ fs' = w.fs
    /\ log' = w.log
    /\ host' = w.host
    /\ handlers' = w.handlers
    /\ qt' = w.qt

PluginLoads == [{PLUGINS[i] : i \in 1..Len(PLUGINS)} -> BOOLEAN]

InitializeMaya ==
    /\ ncalls < MaxCalls
    /\ \E start_ok \in BOOLEAN, loads \in PluginLoads :
         LET r == initialize_maya(has_maya, World, start_ok, loads)
         IN  /\ Apply(r.w)
             /\ last' = [op |-> "initialize_maya", pre |-> World, raised |-> r.raised,
                         start_ok |-> start_ok, loads |-> loads]
    /\ ncalls' = ncalls + 1
    /\ UNCHANGED <<has_maya, cached_version, scope>>

UninitializeMaya ==
    /\ ncalls < MaxCalls
    /\ \E stop_ok \in BOOLEAN :
         LET r == uninitialize_maya(has_maya, World, stop_ok)
         IN  /\ Apply(r.w)
             /\ last' = [op |-> "uninitialize_maya", pre |-> World, raised |-> r.raised,
                         stop_ok |-> stop_ok]
    /\ ncalls' = ncalls + 1
    /\ UNCHANGED <<has_maya, cached_version, scope>>

\* `with maya_standalone():` is entered
MayaStandaloneEnter ==
    /\ ncalls < MaxCalls
    /\ scope.pc # "body"
    /\ \E start_ok \in BOOLEAN, loads \in PluginLoads :
         LET r == maya_standalone_enter(has_maya, World, start_ok, loads)
         IN  /\ Apply(r.w)
             /\ last' = [op |-> "initialize_maya", pre |-> World, raised |-> r.raised,
                         start_ok |-> start_ok, loads |-> loads]
             /\ scope' = IF r.raised = NoError
                         THEN [pc |-> "body", uninitialized |-> FALSE]
                         ELSE scope
    /\ ncalls' = ncalls + 1
    /\ UNCHANGED <<has_maya, cached_version>>

\* the body of the `with` block ends, normally or by raising, and the block is left
MayaStandaloneExit ==
    /\ ncalls < MaxCalls
    /\ scope.pc = "body"
    /\ \E body_raised \in BOOLEAN, stop_ok \in BOOLEAN :
         LET r == maya_standalone_exit(has_maya, World, body_raised, stop_ok)
         IN  /\ Apply(r.w)
             /\ last' = [op |-> IF r.uninitialized THEN "uninitialize_maya"
                                ELSE "maya_standalone.raised",
                         pre |-> World, raised |-> r.raised, stop_ok |-> stop_ok]
             /\ scope' = [pc |-> "exited", uninitialized |-> r.uninitialized]
    /\ ncalls' = ncalls + 1
    /\ UNCHANGED <<has_maya, cached_version>>

NextLifecycle ==
    \/ InitializeMaya
    \/ UninitializeMaya
    \/ MayaStandaloneEnter
    \/ MayaStandaloneExit

SpecLifecycle == InitLifecycle /\ [][NextLifecycle]_vars

\* ---------------------------------------------------------------- timed actions

InitTimed ==
    /\ InitCommon
    /\ has_maya \in BOOLEAN
    /\ handlers = <<"stderr">>
    /\ fs = [cache |-> None, temp |-> FALSE]

TimedCall ==
    /\ ncalls < MaxCalls
    /\ \E func \in Callables, args \in ArgLists, t1 \in Ticks, t2 \in Ticks :
         /\ t1 <= t2
         /\ LET r == timed(func)[args, <<t1, t2>>]
            IN  /\ log' = log \o r.lines
                /\ last' = [op |-> "timed", pre |-> World, func |-> func, args |-> args,
                            t1 |-> t1, t2 |-> t2,
                            calls |-> r.calls, raised |-> r.raised, ret |-> r.ret]
    /\ ncalls' = ncalls + 1
    /\ UNCHANGED <<has_maya, cached_version, fs, host, handlers, qt, scope>>

NextTimed == TimedCall

SpecTimed == InitTimed /\ [][NextTimed]_vars

\* ---------------------------------------------------------------- cache claims

AboutIn(calls) == SelectSeq(calls, LAMBDA h : h.call = "about")

AboutCalls == AboutIn(host)

RemoveCalled == last.op = "remove_outdated_cache"

\* The call got a current version (the host is installed) and found a cache directory.
RemoveFoundCache ==
    /\ RemoveCalled
    /\ last.version # None
    /\ exists(cache_dir(last.pre.fs))

PreDir == Get(cache_dir(last.pre.fs))

CleanCache(version) == Some([entries |-> {}, marker |-> Some(version)])

\* C1: called with a cache directory whose marker file holds the current version,
\* remove_outdated_cache leaves the directory as it was: the other entries and the
\* marker file are the same after the call as before it.
C1_MatchingCacheUntouched ==
    (/\ RemoveFoundCache
     /\ exists(PreDir.marker)
     /\ strip(Get(PreDir.marker)) = Get(last.version))
    => (last.raised = NoError /\ fs = last.pre.fs)

\* C2: called with a cache directory that has no marker file, remove_outdated_cache
\* returns normally and leaves a cache directory that holds only a marker file with
\* the current version.
C2_MarkerlessCacheWiped ==
    (RemoveFoundCache /\ ~exists(PreDir.marker))
    => (last.raised = NoError /\ cache_dir(fs) = CleanCache(Get(last.version)))

\* C4: called with a cache directory whose marker file holds another version than the
\* current one, remove_outdated_cache returns normally and leaves a cache directory
\* that holds only a marker file with the current version: no earlier entry survives.
C4_MismatchedCacheWiped ==
    (/\ RemoveFoundCache
     /\ exists(PreDir.marker)
     /\ strip(Get(PreDir.marker)) # Get(last.version))
    => (last.raised = NoError /\ cache_dir(fs) = CleanCache(Get(last.version)))

C4_Witness ==
    /\ RemoveFoundCache
    /\ PreDir.marker = Some(V2022)
    /\ PreDir.entries = Entries
    /\ last.version = Some(V2023)
    /\ cache_dir(fs) = CleanCache(V2023)

\* C5: called while the cache directory does not exist (the host being installed, as
\* maya_version requires), remove_outdated_cache returns normally and changes nothing
\* in the filesystem: there is still no cache directory and so no marker file.
C5_AbsentCacheNoMutation ==
    (RemoveCalled /\ has_maya /\ ~exists(cache_dir(last.pre.fs)))
    => (/\ last.raised = NoError
        /\ fs = last.pre.fs
        /\ ~exists(cache_dir(fs))
        /\ log = last.pre.log)

C5_Witness ==
    /\ RemoveCalled
    /\ has_maya
    /\ ~exists(cache_dir(last.pre.fs))
    /\ last.version = Some(V2023)
    /\ ~exists(cache_dir(fs))

\* C8: over any sequence of calls the host is asked for its version at most once, by
\* the first call that reaches it, and every call of maya_version (also the one made
\* inside remove_outdated_cache) returns the value that this one query produced.
C8_VersionQueriedOnce ==
    /\ Len(AboutCalls) <= 1
    /\ (last.op = "maya_version" /\ last.raised = NoError)
       => (Len(AboutCalls) = 1 /\ last.ret = Some(AboutCalls[1].ret))
    /\ (RemoveCalled /\ last.version # None)
       => (Len(AboutCalls) = 1 /\ last.version = Some(AboutCalls[1].ret))
    /\ cached_version # None
       => (Len(AboutCalls) = 1 /\ cached_version = Some(AboutCalls[1].ret))

C8_Witness ==
    /\ last.op = "maya_version"
    /\ ncalls = MaxCalls
    /\ Len(AboutIn(last.pre.host)) = 1
    /\ last.ret = Some(V2022)
    /\ host = last.pre.host

\* ---------------------------------------------------------------- lifecycle claims

\* what a call appended to a sequence that was `before` when it began
Added(now, before) == SubSeq(now, Len(before) + 1, Len(now))

Lines(level, lines) == SelectSeq(lines, LAMBDA l : l.level = level)

InitializeCalled == last.op = "initialize_maya"

UninitializeCalled == last.op = "uninitialize_maya"

\* the loadPlugin calls of one initialize_maya, in the order of PLUGINS
PluginCalls(loads) ==
    [i \in 1..Len(PLUGINS) |-> HostCall("loadPlugin", PLUGINS[i], Outcome(loads[PLUGINS[i]]))]

\* the warnings of one initialize_maya: one for each plugin that failed, in order
PluginWarnings(loads) ==
    LET failed == SelectSeq(PLUGINS, LAMBDA p : ~loads[p])
    IN  [i \in 1..Len(failed) |-> Line("warning", "Couldn't load %s", <<failed[i]>>)]

\* C3: every `with maya_standalone():` block that was entered and left, whether its
\* body completed or raised, has had uninitialize_maya called on the way out.
C3_TeardownOnEveryExit ==
    scope.pc = "exited" => scope.uninitialized

\* C6: with the host installed, initialize_maya returns normally whatever the
\* standalone start and the plugin loads do. A failed start is logged as an error
\* and no plugin is loaded; after a successful start every plugin of PLUGINS is
\* attempted once, in order, and each failure is logged as a warning.
C6_InitializeSwallowsFailures ==
    (InitializeCalled /\ has_maya)
    => LET calls == Added(host, last.pre.host)
           lines == Added(log, last.pre.log)
       IN  /\ last.raised = NoError
           /\ Head(calls) = HostCall("standalone.initialize", "", Outcome(last.start_ok))
           /\ IF last.start_ok
              THEN /\ Tail(calls) = PluginCalls(last.loads)
                   /\ Lines("warning", lines) = PluginWarnings(last.loads)
                   /\ Lines("error", lines) = <<>>
              ELSE /\ Tail(calls) = <<>>
                   /\ Lines("error", lines) =
                          <<Line("error", "Failed to initialize Maya Standalone", <<>>)>>

C6_Witness ==
    /\ InitializeCalled
    /\ has_maya
    /\ last.start_ok
    /\ ~last.loads[PLUGINS[1]]
    /\ last.loads[PLUGINS[2]]
    /\ last.raised = NoError
    /\ host[Len(host)] = HostCall("loadPlugin", PLUGINS[2], "ok")

\* C7: with the host installed, uninitialize_maya returns normally whether the
\* standalone shutdown succeeds or fails, a failure being logged as an error, and
\* afterwards ./temp/maya_app_dir does not exist, whether it existed before or not.
C7_UninitializeRemovesTempDir ==
    (UninitializeCalled /\ has_maya)
    => LET calls == Added(host, last.pre.host)
           lines == Added(log, last.pre.log)
       IN  /\ last.raised = NoError
           /\ ~fs.temp
           /\ cache_dir(fs) = cache_dir(last.pre.fs)
           /\ calls = <<HostCall("standalone.uninitialize", "", Outcome(last.stop_ok))>>
           /\ Lines("error", lines) =
                  IF last.stop_ok THEN <<>>
                  ELSE <<Line("error", "Failed to uninitialize Maya Standalone", <<>>)>>

C7_Witness ==
    /\ UninitializeCalled
    /\ has_maya
    /\ ~last.stop_ok
    /\ last.pre.fs.temp
    /\ ~fs.temp
    /\ last.raised = NoError

\* C9: without the host, initialize_maya and uninitialize_maya return normally and
\* change nothing: no host call, no QApplication, no handler removed, no directory
\* deleted, no log line, however many calls are made and in whatever order.
C9_NoOpWithoutHost ==
    ~has_maya
    => /\ (InitializeCalled \/ UninitializeCalled)
          => (last.raised = NoError /\ World = last.pre)
       /\ log = <<>>
       /\ host = <<>>
       /\ qt.apps = 0

C9_Witness ==
    /\ ~has_maya
    /\ UninitializeCalled
    /\ ncalls = MaxCalls
    /\ last.pre.fs.temp
    /\ fs.temp
    /\ handlers = <<"stderr">>

\* ---------------------------------------------------------------- timed claims

\* C10: a call of timed(f) calls f once, with the same arguments. When f returns,
\* the call returns f's value and writes one "executed in" line; when f raises, the
\* call raises the same error and writes no line.
C10_TimedPassesThrough ==
    last.op = "timed"
    => LET result == call(last.func, last.args)
           lines == Added(log, last.pre.log)
       IN  /\ last.calls = <<[func |-> last.func, args |-> last.args]>>
           /\ last.raised = result.raised
           /\ IF result.raised = NoError
              THEN /\ last.ret = result.value
                   /\ lines = <<ExecutedLine(last.func, last.t2 - last.t1)>>
              ELSE /\ last.ret = None
                   /\ lines = <<>>

C10_Witness ==
    /\ last.op = "timed"
    /\ last.func = "first"
    /\ last.args = <<1>>
    /\ last.ret = Some(1)
    /\ Len(log) = MaxCalls

====
